---------------------------- MODULE Spec2Model ----------------------------
(***************************************************************************)
(* Model of gym_electric_motor/visualization/motor_dashboard_plots.py:     *)
(* the dashboard plot classes MotorDashboardPlot, StepPlot, StatePlot,     *)
(* RewardPlot, ActionPlot, EpisodeBasedPlot and MeanEpisodeRewardPlot.     *)
(*                                                                         *)
(* A method is modelled statement by statement up to the first exception   *)
(* it raises: the assignments made before the raise persist, the ones      *)
(* after it do not happen.  The matplotlib axis and line objects are       *)
(* opaque handles whose methods succeed; only the x limits of the axis     *)
(* are kept, because StepPlot.update reads them back.                      *)
(*                                                                         *)
(* Python floats are binary floating point numbers with round-to-nearest-  *)
(* even.  The model keeps that arithmetic with a mantissa of MantissaBits  *)
(* bits (Python: 53): a float is an integer number of quanta 2^-FracBits   *)
(* with at most MantissaBits significant bits.                             *)
(***************************************************************************)
EXTENDS Integers, Sequences, FiniteSets, TLC

\* ------------------------------------------------------------------ bounds
\* Mantissa width of the modelled floats.
MantissaBits == 7
\* Largest number of points x_width / tau the environments offer.
MaxPoints == 4
\* Number of step calls made on one plot.
MaxSteps == 5
\* Number of plots constructed one after the other.
MaxPlots == 2
\* Number of reset calls made on one plot.
MaxResets == 2

\* ----------------------------------------------------------- Python's None
None == << >>
Some(v) == << v >>
IsNone(x) == x = << >>
Val(x) == x[1]

\* --------------------------------------------------------- float arithmetic
RECURSIVE Pow2(_)
Pow2(n) == IF n = 0 THEN 1 ELSE 2 * Pow2(n - 1)

\* Quanta per unit: the float v stands for v / 2^FracBits.
FracBits == MantissaBits + 4
One == Pow2(FracBits)
FromInt(i) == i * One

\* The least s >= 0 with num / (den * 2^s) < 2^MantissaBits.
RECURSIVE Shift(_, _, _)
Shift(num, den, s) ==
    IF num < den * Pow2(MantissaBits + s) THEN s ELSE Shift(num, den, s + 1)

\* num / den rounded to a multiple of p = 2^s quanta, ties to the even one.
RoundAt(num, den, p) ==
    LET m   == num \div (den * p)
        rem == num % (den * p)
    IN  IF 2 * rem > den * p \/ (2 * rem = den * p /\ m % 2 = 1)
        THEN (m + 1) * p
        ELSE m * p

\* num / den (num >= 0, den > 0) rounded to the nearest float.
RoundPos(num, den) == RoundAt(num, den, Pow2(Shift(num, den, 0)))

Round(num, den) == IF num < 0 THEN 0 - RoundPos(0 - num, den) ELSE RoundPos(num, den)

FAdd(a, b) == Round(a + b, 1)
FSub(a, b) == Round(a - b, 1)
FMul(a, b) == Round(a * b, One)
FDiv(a, b) == Round(a * One, b)
\* Python's float % is exact for a >= 0 and b > 0.
FMod(a, b) == a % b
\* int(x): truncation towards zero.
PyInt(a) == IF a < 0 THEN 0 - ((0 - a) \div One) ELSE a \div One
\* max(a, b)
Max(a, b) == IF a >= b THEN a ELSE b

\* ---------------------------------------------------------------- variables
VARIABLES
    default_line_cfg,  \* the class attribute MotorDashboardPlot._default_line_cfg
    plots,             \* the plots constructed so far, oldest first
    cls,               \* class of the plot object the methods are called on
    self,              \* that object's attributes (its __dict__)
    xlim,              \* the x limits of the axis
    env_tau,           \* env.physical_system.tau
    last,              \* the method called last
    args,              \* its arguments
    exc,               \* the exception it raised, "ok" if it returned
    line,              \* the source line that raised, 0 if it returned
    k,                 \* the host's step counter of the running episode
    nsteps,            \* step calls made so far
    nresets,           \* reset calls made so far
    hist               \* the step calls since the buffers were allocated or the
                       \* episode began: step number, sample, time afterwards

vars == << default_line_cfg, plots, cls, self, xlim, env_tau, last, args, exc, line,
           k, nsteps, nresets, hist >>

\* --------------------------------------------------- objects and attributes
\* An object is the function from its attribute names to their values; a
\* value is None or Some(v).  Reading an attribute the object does not have
\* raises AttributeError.
NoAttrs == [a \in {} |-> None]
HasAttr(s, a) == a \in DOMAIN s
\* The object s with the attributes of upd assigned.
With(s, upd) == upd @@ s

\* ----------------------------------------------------- configuration values
\* A Python value passed as a configuration argument: its type, its truth
\* value and, for a dict, its items as <<key, value>> pairs.
PyNone == [ty |-> "NoneType", truthy |-> FALSE, items |-> {}]
PyDict(items) == [ty |-> "dict", truthy |-> items # {}, items |-> items]
PyOther(ty, truthy) == [ty |-> ty, truthy |-> truthy, items |-> {}]

Keys(d) == { p[1] : p \in d }
\* The dict d after d.update(other); the call itself returns None.
DictUpdate(d, other) == { p \in d : p[1] \notin Keys(other) } \cup other

\* lines 10-15
_default_line_cfg ==
    { <<"linestyle", "">>, <<"linewidth", "0.75">>, <<"marker", ".">>,
      <<"markersize", "0.5">> }

\* x or {}
OrEmptyDict(x) == IF x.truthy THEN x ELSE PyDict({})

\* -------------------------------------------------------------- class table
ConcreteClasses == { "StatePlot", "RewardPlot", "ActionPlot", "MeanEpisodeRewardPlot" }
StepPlotClasses == { "StatePlot", "RewardPlot", "ActionPlot" }

\* The base class of each class, None for the root.
Base(c) ==
    CASE c = "MotorDashboardPlot"    -> None
      [] c = "StepPlot"              -> Some("MotorDashboardPlot")
      [] c = "StatePlot"             -> Some("StepPlot")
      [] c = "RewardPlot"            -> Some("StepPlot")
      [] c = "ActionPlot"            -> Some("StepPlot")
      [] c = "EpisodeBasedPlot"      -> Some("MotorDashboardPlot")
      [] c = "MeanEpisodeRewardPlot" -> Some("EpisodeBasedPlot")

\* The methods each class body defines.
Defines(c) ==
    CASE c = "MotorDashboardPlot" ->
            { "__init__", "initialize", "set_env", "on_step_begin", "on_step_end",
              "on_reset_begin", "on_reset_end", "render" }
      [] c = "StepPlot" ->
            { "__init__", "on_reset_end", "step", "set_env", "update", "initialize" }
      [] c = "StatePlot" ->
            { "__init__", "set_modules", "initialize", "step", "update" }
      [] c = "RewardPlot" ->
            { "__init__", "initialize", "set_modules", "step", "update" }
      [] c = "ActionPlot" ->
            { "__init__", "initialize", "set_modules", "step", "update" }
      [] c = "EpisodeBasedPlot" -> { "initialize" }
      [] c = "MeanEpisodeRewardPlot" ->
            { "__init__", "initialize", "set_modules", "step", "update", "reset" }

\* The methods whose body in class c opens with the call super().m(...).
SuperCalls(c) ==
    CASE c = "StepPlot"         -> { "__init__", "set_env", "initialize" }
      [] c = "StatePlot"        -> { "set_modules", "initialize" }
      [] c = "RewardPlot"       -> { "initialize", "set_modules" }
      [] c = "ActionPlot"       -> { "__init__", "initialize", "set_modules" }
      [] c = "EpisodeBasedPlot" -> { "initialize" }
      [] c = "MeanEpisodeRewardPlot" -> { "__init__" }
      [] OTHER                  -> { }

\* Method resolution: the first class from c upwards that defines m, None
\* when no class of the chain does (Python raises AttributeError).
RECURSIVE Lookup(_, _)
Lookup(c, m) ==
    IF m \in Defines(c) THEN Some(c)
    ELSE IF IsNone(Base(c)) THEN None
    ELSE Lookup(Val(Base(c)), m)

\* super().m inside class c.
SuperLookup(c, m) == IF IsNone(Base(c)) THEN None ELSE Lookup(Val(Base(c)), m)

\* ------------------------------------------------------------- constructors
\* The outcome of a constructor: the object, the class attribute
\* _default_line_cfg afterwards, the exception and the line raising it.
Ret(s, d, e, l) == [self |-> s, dflt |-> d, exc |-> e, line |-> l]

\* A keyword argument, or its default when the caller does not pass it.
Arg(kw, name, dflt) == IF name \in DOMAIN kw THEN kw[name] ELSE dflt

\* lines 17-23: dict.update changes the class attribute in place and
\* returns None, which is what _line_cfg is assigned
MotorDashboardPlot___init__(s, d, line_config) ==
    IF OrEmptyDict(line_config).ty # "dict"
    THEN Ret(With(s, [_axis |-> None]), d, "AssertionError", 21)
    ELSE Ret(With(s, [_axis |-> None, _line_cfg |-> None]),
             DictUpdate(d, OrEmptyDict(line_config).items), "ok", 0)

\* lines 80-86
StepPlot_fields(r) ==
    IF r.exc # "ok" THEN r
    ELSE Ret(With(r.self, [ _no_x_points |-> None, _t |-> Some(0), _t_data |-> Some(<< >>),
                            _tau |-> None, x_width |-> Some(FromInt(1)),
                            update_cycle |-> Some(1000),
                            y_lim |-> Some(<< "-inf", "inf" >>) ]),
             r.dflt, "ok", 0)

\* lines 78-86
StepPlot___init__(s, d, line_config) ==
    StepPlot_fields(MotorDashboardPlot___init__(s, d, line_config))

\* lines 152-182
StatePlot___init__(s, d, kw) ==
    IF OrEmptyDict(Arg(kw, "limit_line_cfg", PyNone)).ty # "dict"
    THEN Ret(s, d, "AssertionError", 159)
    ELSE StepPlot___init__(
             With(s, [ _state_space |-> None, _state |-> Some("omega"), _state_idx |-> None,
                       _limits |-> None, _referenced |-> None, _state_line |-> None,
                       _reference_line |-> None, _state_data |-> Some(<< >>),
                       _ref_data |-> Some(<< >>), _normalized |-> Some(TRUE) ]),
             d, Arg(kw, "line_config", PyNone))

\* lines 252-256: __init__(self) takes no configuration argument
RewardPlot___init__(s, d, kw) ==
    IF DOMAIN kw # {} THEN Ret(s, d, "TypeError", 252)
    ELSE StepPlot___init__(
             With(s, [_reward_range |-> None, _reward_line |-> None, _reward_data |-> None]),
             d, PyNone)

\* lines 294-306
ActionPlot_fields(r) ==
    IF r.exc # "ok" THEN r
    ELSE Ret(With(r.self, [ _action_space |-> None, _action |-> Some("action_0"),
                            _action_idx |-> None, _action_line |-> None,
                            _action_data |-> None, _action_range_min |-> None,
                            _action_range_max |-> None, _action_type |-> None ]),
             r.dflt, "ok", 0)

\* lines 292-306: __init__(self, action) takes no configuration argument
ActionPlot___init__(s, d, kw) ==
    IF DOMAIN kw # {} THEN Ret(s, d, "TypeError", 292)
    ELSE ActionPlot_fields(StepPlot___init__(s, d, PyNone))

\* lines 383-391
MeanEpisodeRewardPlot_fields(r) ==
    IF r.exc # "ok" THEN r
    ELSE Ret(With(r.self, [ _reward_line |-> None, _reward_data |-> None,
                            _reward_sum |-> Some(0), _episode_length |-> Some(0),
                            episode_count |-> Some(0), x |-> None, _axis |-> None ]),
             r.dflt, "ok", 0)

\* lines 380-391: __init__(self) takes no configuration argument
MeanEpisodeRewardPlot___init__(s, d, kw) ==
    IF DOMAIN kw # {} THEN Ret(s, d, "TypeError", 380)
    ELSE MeanEpisodeRewardPlot_fields(MotorDashboardPlot___init__(s, d, PyNone))

\* c(**kw): the constructor Python resolves for class c.
New(c, d, kw) ==
    CASE c = "StatePlot"             -> StatePlot___init__(NoAttrs, d, kw)
      [] c = "RewardPlot"            -> RewardPlot___init__(NoAttrs, d, kw)
      [] c = "ActionPlot"            -> ActionPlot___init__(NoAttrs, d, kw)
      [] c = "MeanEpisodeRewardPlot" -> MeanEpisodeRewardPlot___init__(NoAttrs, d, kw)

\* ------------------------------------------------------------------ methods
\* The outcome of a method call: the object and the axis limits afterwards,
\* the exception and the line raising it.
Out(s, xl, e, l) == [self |-> s, xlim |-> xl, exc |-> e, line |-> l]

\* Python's 0-based a[i] = v on a buffer kept as a 1-based sequence.
SetItem(a, i, v) == [a EXCEPT ![i + 1] = v]
InRange(a, i) == 0 <= i /\ i < Len(a)

\* np.linspace(0, x_width, n, endpoint=False): arange(n) * (x_width / n)
Linspace(xw, n) == [i \in 1..n |-> FMul(FromInt(i - 1), FDiv(xw, FromInt(n)))]
Zeros(n) == [i \in 1..n |-> 0]

\* The truth value of self._referenced.
Referenced(s) == ~IsNone(s._referenced) /\ Val(s._referenced)

\* lines 25-32
MotorDashboardPlot_initialize(s, xl) == Out(With(s, [_axis |-> Some("axis")]), xl, "ok", 0)

\* lines 34-42
MotorDashboardPlot_set_env(s, xl) == Out(s, xl, "ok", 0)

\* lines 44-51
MotorDashboardPlot_on_step_begin(s, xl) == Out(s, xl, "NotImplementedError", 51)

\* lines 53-63
MotorDashboardPlot_on_step_end(s, xl) == Out(s, xl, "NotImplementedError", 63)

\* lines 65-67
MotorDashboardPlot_on_reset_begin(s, xl) == Out(s, xl, "ok", 0)

\* lines 69-70
MotorDashboardPlot_on_reset_end(s, xl) == Out(s, xl, "NotImplementedError", 70)

\* lines 88-90 with a reset that restarts the time
StepPlot_on_reset_end_RestartsTime(s, xl) == Out(With(s, [_t |-> Some(0)]), xl, "ok", 0)

\* lines 88-90
StepPlot_on_reset_end(s, xl) == Out(s, xl, "ok", 0)

\* lines 92-93
StepPlot_step(s, xl) == Out(s, xl, "NotImplementedError", 93)

\* lines 95-101
StepPlot_set_env(s, xl, tau) ==
    IF IsNone(MotorDashboardPlot_set_env(s, xl).self._axis)
    THEN Out(s, xl, "AttributeError", 97)
    ELSE Out(With(s, [ _tau |-> Some(tau),
                       _no_x_points |-> Some(PyInt(FDiv(Val(s.x_width), tau))) ]),
             << 0 - Val(s.x_width), 0 >>, "ok", 0)

\* lines 107-109 with an axis that does not scroll: the upper limit stays
StepPlot_set_xlim_Stuck(s, xl, upper_lim) ==
    Out(s, << FSub(xl[2], Val(s.x_width)), xl[2] >>, "ok", 0)

\* lines 107-109
StepPlot_set_xlim(s, xl, upper_lim) ==
    Out(s, << FSub(upper_lim, Val(s.x_width)), upper_lim >>, "ok", 0)

\* lines 103-109
StepPlot_update(s, xl) ==
    IF IsNone(s._axis) THEN Out(s, xl, "AttributeError", 106)
    ELSE StepPlot_set_xlim(s, xl, Max(Val(s._t), xl[2]))

\* lines 111-118: y_lim is never None, the axis takes the y limits
StepPlot_initialize(s, xl) == MotorDashboardPlot_initialize(s, xl)

\* The slot int((self._t % self.x_width) / self._tau) of lines 225, 276, 349.
SlotIndex(t, xw, tau) == PyInt(FDiv(FMod(t, xw), tau))

\* lines 184-192: no base class of StatePlot defines set_modules
StatePlot_set_modules(s, xl) ==
    IF IsNone(SuperLookup("StatePlot", "set_modules"))
    THEN Out(s, xl, "AttributeError", 186)
    ELSE Out(With(s, [ _state_idx |-> Some(0), _limits |-> Some(FromInt(2)),
                       _state_space |-> Some(<< 0 - One, One >>),
                       _referenced |-> Some(TRUE) ]),
             xl, "ok", 0)

\* lines 196-219, s0 the object after super().initialize(axis)
StatePlot_initialize_lines(s0, xl) ==
    IF Referenced(s0) /\ IsNone(s0._line_cfg) THEN Out(s0, xl, "TypeError", 197)
    ELSE IF IsNone(s0._line_cfg)
         THEN Out(s0, xl, "TypeError", 198)
    ELSE IF IsNone(s0._limits) \/ IsNone(s0._state_space)
         THEN Out(With(s0, [_state_line |-> Some("line")]), xl, "TypeError", 200)
    ELSE IF IsNone(s0._no_x_points)
         THEN Out(With(s0, [_state_line |-> Some("line")]), xl, "TypeError", 209)
    ELSE Out(With(s0, [ _state_line |-> Some("line"),
                        _reference_line |->
                            IF Referenced(s0) THEN Some("line") ELSE s0._reference_line,
                        _t_data |-> Some(Linspace(Val(s0.x_width), Val(s0._no_x_points))),
                        _state_data |-> Some(Zeros(Val(s0._no_x_points))),
                        _ref_data |-> Some(Zeros(Val(s0._no_x_points))) ]),
             xl, "ok", 0)

\* lines 194-219
StatePlot_initialize(s, xl) == StatePlot_initialize_lines(StepPlot_initialize(s, xl).self, xl)

\* lines 226-231, s1 the object after line 222; smp is state[self._state_idx]
\* and the reference at that index
StatePlot_step_store(s1, xl, smp, idx) ==
    IF ~InRange(Val(s1._t_data), idx) THEN Out(s1, xl, "IndexError", 226)
    ELSE IF IsNone(s1._state_idx)
         THEN \* state[None] is the array with one more axis, not a scalar
              Out(With(s1, [_t_data |-> Some(SetItem(Val(s1._t_data), idx, Val(s1._t)))]),
                  xl, "ValueError", 227)
    ELSE IF ~InRange(Val(s1._state_data), idx)
         THEN Out(With(s1, [_t_data |-> Some(SetItem(Val(s1._t_data), idx, Val(s1._t)))]),
                  xl, "IndexError", 227)
    ELSE Out(With(s1, [ _t_data |-> Some(SetItem(Val(s1._t_data), idx, Val(s1._t))),
                        _state_data |-> Some(SetItem(Val(s1._state_data), idx, smp)),
                        _ref_data |->
                            IF Referenced(s1)
                            THEN Some(SetItem(Val(s1._ref_data), idx, smp))
                            ELSE s1._ref_data ]),
             xl, "ok", 0)

\* lines 222-225, t the new time
StatePlot_step_at(s, xl, smp, t) ==
    StatePlot_step_store(With(s, [_t |-> Some(t)]), xl, smp,
                         SlotIndex(t, Val(s.x_width), Val(s._tau)))

\* lines 221-231
StatePlot_step(s, xl, smp) ==
    IF IsNone(s._tau) THEN Out(s, xl, "TypeError", 222)
    ELSE StatePlot_step_at(s, xl, smp, FAdd(Val(s._t), Val(s._tau)))

\* lines 233-245
StatePlot_update(s, xl) ==
    IF Val(s._normalized) /\ IsNone(s._limits) THEN Out(s, xl, "TypeError", 238)
    ELSE IF Referenced(s) /\ IsNone(s._reference_line) THEN Out(s, xl, "AttributeError", 242)
    ELSE IF IsNone(s._state_line) THEN Out(s, xl, "AttributeError", 243)
    ELSE StepPlot_update(s, xl)

\* lines 260-268, s0 the object after super().initialize(axis)
RewardPlot_initialize_lines(s0, xl) ==
    IF IsNone(s0._no_x_points) THEN Out(s0, xl, "TypeError", 260)
    ELSE IF IsNone(s0._reward_range)
         THEN Out(With(s0, [ _t_data |-> Some(Linspace(Val(s0.x_width), Val(s0._no_x_points))),
                             _reward_data |-> Some(Zeros(Val(s0._no_x_points))),
                             _reward_line |-> Some("line") ]),
                  xl, "TypeError", 263)
    ELSE Out(With(s0, [ _t_data |-> Some(Linspace(Val(s0.x_width), Val(s0._no_x_points))),
                        _reward_data |-> Some(Zeros(Val(s0._no_x_points))),
                        _reward_line |-> Some("line") ]),
             xl, "ok", 0)

\* lines 258-268
RewardPlot_initialize(s, xl) == RewardPlot_initialize_lines(StepPlot_initialize(s, xl).self, xl)

\* lines 270-272: no base class of RewardPlot defines set_modules
RewardPlot_set_modules(s, xl) ==
    IF IsNone(SuperLookup("RewardPlot", "set_modules"))
    THEN Out(s, xl, "AttributeError", 271)
    ELSE Out(With(s, [_reward_range |-> Some(<< 0 - One, One >>)]), xl, "ok", 0)

\* lines 278-281, s1 the object after line 275
RewardPlot_step_store(s1, xl, reward, idx) ==
    IF ~InRange(Val(s1._t_data), idx) THEN Out(s1, xl, "IndexError", 278)
    ELSE IF IsNone(s1._reward_data)
         THEN Out(With(s1, [_t_data |-> Some(SetItem(Val(s1._t_data), idx, Val(s1._t)))]),
                  xl, "TypeError", 279)
    ELSE IF ~InRange(Val(s1._reward_data), idx)
         THEN Out(With(s1, [_t_data |-> Some(SetItem(Val(s1._t_data), idx, Val(s1._t)))]),
                  xl, "IndexError", 279)
    ELSE Out(With(s1, [ _t_data |-> Some(SetItem(Val(s1._t_data), idx, Val(s1._t))),
                        _reward_data |-> Some(SetItem(Val(s1._reward_data), idx, reward)) ]),
             xl, "ok", 0)

\* lines 275-276, t the new time
RewardPlot_step_at(s, xl, reward, t) ==
    RewardPlot_step_store(With(s, [_t |-> Some(t)]), xl, reward,
                          SlotIndex(t, Val(s.x_width), Val(s._tau)))

\* lines 274-281
RewardPlot_step(s, xl, reward) ==
    IF IsNone(s._tau) THEN Out(s, xl, "TypeError", 275)
    ELSE RewardPlot_step_at(s, xl, reward, FAdd(Val(s._t), Val(s._tau)))

\* lines 283-285
RewardPlot_update(s, xl) ==
    IF IsNone(s._reward_line) THEN Out(s, xl, "AttributeError", 284)
    ELSE StepPlot_update(s, xl)

\* An action handed to step: None, the int of a discrete space or the array
\* of a continuous one.
NoAction == [kind |-> "None", v |-> << >>]
IntAction(i) == [kind |-> "int", v |-> << FromInt(i) >>]
ArrayAction(a) == [kind |-> "array", v |-> a]

\* lines 314-325, s0 the object after super().initialize(axis)
ActionPlot_initialize_lines(s0, xl) ==
    IF IsNone(s0._no_x_points) THEN Out(s0, xl, "TypeError", 314)
    ELSE IF IsNone(s0._line_cfg)
         THEN Out(With(s0, [ _t_data |-> Some(Linspace(Val(s0.x_width), Val(s0._no_x_points))),
                             _action_data |-> Some(Zeros(Val(s0._no_x_points))) ]),
                  xl, "TypeError", 316)
    ELSE IF IsNone(s0._action_range_min)
         THEN Out(With(s0, [ _t_data |-> Some(Linspace(Val(s0.x_width), Val(s0._no_x_points))),
                             _action_data |-> Some(Zeros(Val(s0._no_x_points))),
                             _action_line |-> Some("line") ]),
                  xl, "TypeError", 321)
    ELSE Out(With(s0, [ _t_data |-> Some(Linspace(Val(s0.x_width), Val(s0._no_x_points))),
                        _action_data |-> Some(Zeros(Val(s0._no_x_points))),
                        _action_line |-> Some("line") ]),
             xl, "ok", 0)

\* lines 308-325
ActionPlot_initialize(s, xl) == ActionPlot_initialize_lines(StepPlot_initialize(s, xl).self, xl)

\* lines 327-345: no base class of ActionPlot defines set_modules
ActionPlot_set_modules(s, xl, space) ==
    IF IsNone(SuperLookup("ActionPlot", "set_modules"))
    THEN Out(s, xl, "AttributeError", 328)
    ELSE Out(With(s, [ _action_space |-> Some(space), _action_idx |-> Some(0),
                       _action_type |-> Some(space),
                       _action_range_min |->
                           Some(IF space = "Discrete" THEN 0 ELSE 0 - One),
                       _action_range_max |->
                           Some(IF space = "Discrete" THEN FromInt(2) ELSE One) ]),
             xl, "ok", 0)

\* self._action_data[idx] = v, s2 the object after line 351
ActionPlot_store(s2, xl, idx, v, at) ==
    IF IsNone(s2._action_data) THEN Out(s2, xl, "TypeError", at)
    ELSE Out(With(s2, [_action_data |-> Some(SetItem(Val(s2._action_data), idx, v))]),
             xl, "ok", 0)

\* lines 353-360, s2 the object after line 351
ActionPlot_step_action(s2, xl, action, idx) ==
    IF action.kind = "None" THEN Out(s2, xl, "ok", 0)
    ELSE IF s2._action_type = Some("Discrete")
         THEN \* line 355: self._action_data[idx] = action
              IF Len(action.v) # 1 THEN Out(s2, xl, "ValueError", 355)
              ELSE ActionPlot_store(s2, xl, idx, action.v[1], 355)
    \* line 357: self._action_data[idx] = action[self._action_idx]
    ELSE IF action.kind = "int" THEN Out(s2, xl, "TypeError", 357)
    ELSE IF IsNone(s2._action_idx)
         THEN \* action[None] is the array with one more axis: it fits a slot
              \* only when it holds a single element
              IF Len(action.v) # 1 THEN Out(s2, xl, "ValueError", 357)
              ELSE ActionPlot_store(s2, xl, idx, action.v[1], 357)
    ELSE IF ~InRange(action.v, Val(s2._action_idx)) THEN Out(s2, xl, "IndexError", 357)
    ELSE ActionPlot_store(s2, xl, idx, action.v[Val(s2._action_idx) + 1], 357)

\* lines 351-360, s1 the object after line 348
ActionPlot_step_store(s1, xl, action, idx) ==
    IF ~InRange(Val(s1._t_data), idx) THEN Out(s1, xl, "IndexError", 351)
    ELSE ActionPlot_step_action(
             With(s1, [_t_data |-> Some(SetItem(Val(s1._t_data), idx, Val(s1._t)))]),
             xl, action, idx)

\* lines 348-349, t the new time
ActionPlot_step_at(s, xl, action, t) ==
    ActionPlot_step_store(With(s, [_t |-> Some(t)]), xl, action,
                          SlotIndex(t, Val(s.x_width), Val(s._tau)))

\* lines 347-360
ActionPlot_step(s, xl, action) ==
    IF IsNone(s._tau) THEN Out(s, xl, "TypeError", 348)
    ELSE ActionPlot_step_at(s, xl, action, FAdd(Val(s._t), Val(s._tau)))

\* lines 362-364
ActionPlot_update(s, xl) ==
    IF IsNone(s._action_line) THEN Out(s, xl, "AttributeError", 363)
    ELSE StepPlot_update(s, xl)

\* lines 370-372
EpisodeBasedPlot_initialize(s, xl) == MotorDashboardPlot_initialize(s, xl)

\* deque(maxlen=n).append(v) on the deque q
DequeAppend(q, n, v) == IF Len(q) >= n THEN Append(Tail(q), v) ELSE Append(q, v)

\* lines 393-410: x_width, reward_line_cfg and (before set_modules)
\* _reward_range are attributes no class sets
MeanEpisodeRewardPlot_initialize(s, xl) ==
    IF ~HasAttr(s, "x_width")
    THEN Out(With(s, [_axis |-> Some("axis")]), xl, "AttributeError", 402)
    ELSE IF ~HasAttr(s, "reward_line_cfg")
         THEN Out(With(s, [ _axis |-> Some("axis"), x |-> Some(Zeros(Val(s.x_width))),
                            _reward_data |-> Some(Zeros(Val(s.x_width))) ]),
                  xl, "AttributeError", 404)
    ELSE IF ~HasAttr(s, "_reward_range")
         THEN Out(With(s, [ _axis |-> Some("axis"), x |-> Some(Zeros(Val(s.x_width))),
                            _reward_data |-> Some(Zeros(Val(s.x_width))),
                            _reward_line |-> Some("line") ]),
                  xl, "AttributeError", 405)
    ELSE Out(With(s, [ _axis |-> Some("axis"), x |-> Some(Zeros(Val(s.x_width))),
                       _reward_data |-> Some(Zeros(Val(s.x_width))),
                       _reward_line |-> Some("line") ]),
             xl, "ok", 0)

\* lines 412-414
MeanEpisodeRewardPlot_set_modules(s, xl) ==
    Out(With(s, [_reward_range |-> Some(<< 0 - One, One >>)]), xl, "ok", 0)

\* lines 416-419
MeanEpisodeRewardPlot_step(s, xl, step_k, reward) ==
    Out(With(s, [ _reward_sum |-> Some(FAdd(Val(s._reward_sum), reward)),
                  _episode_length |-> Some(step_k) ]),
        xl, "ok", 0)

\* lines 424-429, s1 the object after line 423
MeanEpisodeRewardPlot_update_mean(s1, xl) ==
    IF IsNone(s1._reward_data) THEN Out(s1, xl, "AttributeError", 424)
    ELSE IF Val(s1._episode_length) = 0 THEN Out(s1, xl, "ZeroDivisionError", 424)
    ELSE IF IsNone(s1._reward_line)
         THEN Out(With(s1, [_reward_data |->
                      Some(DequeAppend(Val(s1._reward_data), Val(s1.x_width),
                           FDiv(Val(s1._reward_sum), FromInt(Val(s1._episode_length)))))]),
                  xl, "AttributeError", 426)
    ELSE Out(With(s1, [_reward_data |->
                 Some(DequeAppend(Val(s1._reward_data), Val(s1.x_width),
                      FDiv(Val(s1._reward_sum), FromInt(Val(s1._episode_length)))))]),
             xl, IF HasAttr(s1, "mode") THEN "ok" ELSE "AttributeError",
             IF HasAttr(s1, "mode") THEN 0 ELSE 428)

\* lines 421-429: mode is an attribute no class sets
MeanEpisodeRewardPlot_update(s, xl) ==
    IF IsNone(s.x) THEN Out(s, xl, "AttributeError", 423)
    ELSE MeanEpisodeRewardPlot_update_mean(
             With(s, [x |-> Some(DequeAppend(Val(s.x), Val(s.x_width), Val(s.episode_count)))]),
             xl)

\* lines 436-437, r the outcome of lines 433-434
MeanEpisodeRewardPlot_reset_count(r) ==
    IF r.exc # "ok" THEN r
    ELSE Out(With(r.self, [ episode_count |-> Some(Val(r.self.episode_count) + 1),
                            _reward_sum |-> Some(0) ]),
             r.xlim, "ok", 0)

\* lines 431-437
MeanEpisodeRewardPlot_reset(s, xl) ==
    MeanEpisodeRewardPlot_reset_count(
        IF Val(s._episode_length) > 0
        THEN MeanEpisodeRewardPlot_update(s, xl)
        ELSE Out(s, xl, "ok", 0))

\* ----------------------------------------------------------------- dispatch
\* obj.m(...) on an object of class c: Python looks m up along the bases
\* and raises AttributeError when no class defines it.
NoMethod(s, xl) == Out(s, xl, "AttributeError", 0)

initialize(c, s, xl) ==
    CASE Lookup(c, "initialize") = Some("StatePlot")  -> StatePlot_initialize(s, xl)
      [] Lookup(c, "initialize") = Some("RewardPlot") -> RewardPlot_initialize(s, xl)
      [] Lookup(c, "initialize") = Some("ActionPlot") -> ActionPlot_initialize(s, xl)
      [] Lookup(c, "initialize") = Some("MeanEpisodeRewardPlot") ->
             MeanEpisodeRewardPlot_initialize(s, xl)
      [] Lookup(c, "initialize") = Some("StepPlot")   -> StepPlot_initialize(s, xl)
      [] Lookup(c, "initialize") = Some("EpisodeBasedPlot") ->
             EpisodeBasedPlot_initialize(s, xl)
      [] Lookup(c, "initialize") = Some("MotorDashboardPlot") ->
             MotorDashboardPlot_initialize(s, xl)
      [] OTHER -> NoMethod(s, xl)

set_env(c, s, xl, tau) ==
    CASE Lookup(c, "set_env") = Some("StepPlot") -> StepPlot_set_env(s, xl, tau)
      [] Lookup(c, "set_env") = Some("MotorDashboardPlot") -> MotorDashboardPlot_set_env(s, xl)
      [] OTHER -> NoMethod(s, xl)

set_modules(c, s, xl, space) ==
    CASE Lookup(c, "set_modules") = Some("StatePlot")  -> StatePlot_set_modules(s, xl)
      [] Lookup(c, "set_modules") = Some("RewardPlot") -> RewardPlot_set_modules(s, xl)
      [] Lookup(c, "set_modules") = Some("ActionPlot") ->
             ActionPlot_set_modules(s, xl, space)
      [] Lookup(c, "set_modules") = Some("MeanEpisodeRewardPlot") ->
             MeanEpisodeRewardPlot_set_modules(s, xl)
      [] OTHER -> NoMethod(s, xl)

on_step_begin(c, s, xl) ==
    CASE Lookup(c, "on_step_begin") = Some("MotorDashboardPlot") ->
             MotorDashboardPlot_on_step_begin(s, xl)
      [] OTHER -> NoMethod(s, xl)

on_step_end(c, s, xl) ==
    CASE Lookup(c, "on_step_end") = Some("MotorDashboardPlot") ->
             MotorDashboardPlot_on_step_end(s, xl)
      [] OTHER -> NoMethod(s, xl)

on_reset_begin(c, s, xl) ==
    CASE Lookup(c, "on_reset_begin") = Some("MotorDashboardPlot") ->
             MotorDashboardPlot_on_reset_begin(s, xl)
      [] OTHER -> NoMethod(s, xl)

on_reset_end(c, s, xl) ==
    CASE Lookup(c, "on_reset_end") = Some("StepPlot") -> StepPlot_on_reset_end(s, xl)
      [] Lookup(c, "on_reset_end") = Some("MotorDashboardPlot") ->
             MotorDashboardPlot_on_reset_end(s, xl)
      [] OTHER -> NoMethod(s, xl)

update(c, s, xl) ==
    CASE Lookup(c, "update") = Some("StatePlot")  -> StatePlot_update(s, xl)
      [] Lookup(c, "update") = Some("RewardPlot") -> RewardPlot_update(s, xl)
      [] Lookup(c, "update") = Some("ActionPlot") -> ActionPlot_update(s, xl)
      [] Lookup(c, "update") = Some("MeanEpisodeRewardPlot") ->
             MeanEpisodeRewardPlot_update(s, xl)
      [] Lookup(c, "update") = Some("StepPlot")   -> StepPlot_update(s, xl)
      [] OTHER -> NoMethod(s, xl)

step(c, s, xl, step_k, smp, action) ==
    CASE Lookup(c, "step") = Some("StatePlot")  -> StatePlot_step(s, xl, smp)
      [] Lookup(c, "step") = Some("RewardPlot") -> RewardPlot_step(s, xl, smp)
      [] Lookup(c, "step") = Some("ActionPlot") -> ActionPlot_step(s, xl, action)
      [] Lookup(c, "step") = Some("MeanEpisodeRewardPlot") ->
             MeanEpisodeRewardPlot_step(s, xl, step_k, smp)
      [] Lookup(c, "step") = Some("StepPlot")   -> StepPlot_step(s, xl)
      [] OTHER -> NoMethod(s, xl)

reset(c, s, xl) ==
    CASE Lookup(c, "reset") = Some("MeanEpisodeRewardPlot") ->
             MeanEpisodeRewardPlot_reset(s, xl)
      [] OTHER -> NoMethod(s, xl)

\* -------------------------------------------------------------- environment
\* The step sizes tau = x_width / n the environment offers, as the floats
\* nearest to them (x_width is 1, the default of StepPlot.__init__).
Taus == { FDiv(FromInt(1), FromInt(n)) : n \in 2..MaxPoints }
\* The values a state, a reference or a reward takes.
Samples == { FromInt(1), FromInt(2) }
\* The actions handed to step: None after a reset, the int of a discrete
\* space, the array of a continuous one.
Actions == { NoAction, IntAction(1), ArrayAction(<< FromInt(1), FromInt(2) >>) }
Spaces == { "Discrete", "Continuous" }

\* The state and reward, and the action, of one step call; a class reads
\* the ones it plots.
StepInputs(c) ==
    IF c = "ActionPlot"
    THEN { [smp |-> FromInt(1), action |-> a] : a \in Actions }
    ELSE { [smp |-> v, action |-> NoAction] : v \in Samples }
NoArgs == [smp |-> 0, action |-> NoAction]

\* ------------------------------------------------ the calls made on one plot
\* The call of method m with arguments a had the outcome r.
Do(m, a, r) ==
    /\ self' = r.self
    /\ xlim' = r.xlim
    /\ exc' = r.exc
    /\ line' = r.line
    /\ last' = m
    /\ args' = a

Frame == UNCHANGED << default_line_cfg, plots, cls, env_tau >>

Initialize ==
    /\ Do("initialize", NoArgs, initialize(cls, self, xlim))
    \* a call that allocates the buffers anew starts a new record of steps
    /\ hist' = IF self' = With(self, [_axis |-> Some("axis")]) THEN hist ELSE << >>
    /\ UNCHANGED << k, nsteps, nresets >>
    /\ Frame

SetEnv ==
    /\ Do("set_env", NoArgs, set_env(cls, self, xlim, env_tau))
    /\ UNCHANGED << k, nsteps, nresets, hist >>
    /\ Frame

SetModules ==
    /\ \E space \in Spaces :
         Do("set_modules", [space |-> space], set_modules(cls, self, xlim, space))
    /\ UNCHANGED << k, nsteps, nresets, hist >>
    /\ Frame

OnStepBegin ==
    /\ Do("on_step_begin", NoArgs, on_step_begin(cls, self, xlim))
    /\ UNCHANGED << k, nsteps, nresets, hist >>
    /\ Frame

OnStepEnd ==
    /\ Do("on_step_end", NoArgs, on_step_end(cls, self, xlim))
    /\ UNCHANGED << k, nsteps, nresets, hist >>
    /\ Frame

OnResetBegin ==
    /\ Do("on_reset_begin", NoArgs, on_reset_begin(cls, self, xlim))
    /\ UNCHANGED << k, nsteps, nresets, hist >>
    /\ Frame

OnResetEnd ==
    /\ Do("on_reset_end", NoArgs, on_reset_end(cls, self, xlim))
    /\ UNCHANGED << k, nsteps, nresets, hist >>
    /\ Frame

Update ==
    /\ Do("update", NoArgs, update(cls, self, xlim))
    /\ UNCHANGED << k, nsteps, nresets, hist >>
    /\ Frame

\* step(k, state, reference, action, reward, done), k the host's counter
Step ==
    /\ nsteps < MaxSteps
    /\ \E a \in StepInputs(cls) :
         Do("step", a, step(cls, self, xlim, k + 1, a.smp, a.action))
    /\ hist' = Append(hist, [ n |-> nsteps + 1, smp |-> args'.smp,
                              t |-> IF HasAttr(self', "_t") THEN Val(self'._t) ELSE 0 ])
    /\ k' = k + 1
    /\ nsteps' = nsteps + 1
    /\ UNCHANGED nresets
    /\ Frame

\* reset(), the method of MeanEpisodeRewardPlot that ends an episode
Reset ==
    /\ nresets < MaxResets
    /\ ~IsNone(Lookup(cls, "reset"))
    /\ Do("reset", NoArgs, reset(cls, self, xlim))
    /\ hist' = << >>
    /\ k' = 0
    /\ nresets' = nresets + 1
    /\ UNCHANGED nsteps
    /\ Frame

\* The plot after construction with the default arguments.
InitPlot(r) ==
    /\ self = r.self
    /\ default_line_cfg = r.dflt
    /\ exc = r.exc
    /\ line = r.line

Init ==
    /\ cls \in ConcreteClasses
    /\ env_tau \in Taus
    /\ InitPlot(New(cls, _default_line_cfg, NoAttrs))
    /\ plots = << >>
    /\ args = NoAttrs
    \* the view limits of a new matplotlib axis
    /\ xlim = << 0, One >>
    /\ last = "__init__"
    /\ k = 0
    /\ nsteps = 0
    /\ nresets = 0
    /\ hist = << >>

Next ==
    \/ Initialize
    \/ SetEnv
    \/ SetModules
    \/ OnStepBegin
    \/ OnStepEnd
    \/ OnResetBegin
    \/ OnResetEnd
    \/ Update
    \/ Step
    \/ Reset

Spec == Init /\ [][Next]_vars

\* ---------------------------------------------- constructing several plots
\* The values a caller passes as line_config or limit_line_cfg.
ConfigValues ==
    { PyNone, PyDict({}), PyDict({ <<"marker", "o">> }), PyDict({ <<"color", "r">> }),
      PyOther("list", FALSE), PyOther("list", TRUE), PyOther("int", FALSE),
      PyOther("str", FALSE) }

Kwargs ==
    { NoAttrs }
    \cup { [a \in {"line_config"} |-> v] : v \in ConfigValues }
    \cup { [a \in {"limit_line_cfg"} |-> v] : v \in ConfigValues }

\* The call c(**kw) had the outcome r: a constructor that raises yields no
\* plot and leaves the class attribute as it was (line 23 is its only writer).
Constructed(c, kw, r) ==
    /\ args' = kw
    /\ cls' = c
    /\ exc' = r.exc
    /\ line' = r.line
    /\ self' = r.self
    /\ default_line_cfg' = IF r.exc = "ok" THEN r.dflt ELSE default_line_cfg
    /\ plots' = IF r.exc = "ok"
                THEN Append(plots, [cls |-> c, kw |-> kw, _line_cfg |-> r.self._line_cfg])
                ELSE plots

Construct ==
    /\ Len(plots) < MaxPlots
    /\ \E c \in ConcreteClasses, kw \in Kwargs : Constructed(c, kw, New(c, default_line_cfg, kw))
    /\ last' = "__init__"
    /\ UNCHANGED << xlim, env_tau, k, nsteps, nresets, hist >>

InitCtor ==
    /\ default_line_cfg = _default_line_cfg
    /\ plots = << >>
    /\ args = NoAttrs
    /\ cls = "MotorDashboardPlot"
    /\ self = NoAttrs
    /\ xlim = << 0, One >>
    /\ env_tau = FromInt(1)
    /\ last = "none"
    /\ exc = "ok"
    /\ line = 0
    /\ k = 0
    /\ nsteps = 0
    /\ nresets = 0
    /\ hist = << >>

NextCtor == Construct

SpecCtor == InitCtor /\ [][NextCtor]_vars

\* ================================================================== claims
\* The rewards of the step calls recorded in h, added up as line 418 does.
RECURSIVE RewardSum(_)
RewardSum(h) ==
    IF h = << >> THEN 0 ELSE FAdd(RewardSum(SubSeq(h, 1, Len(h) - 1)), h[Len(h)].smp)

\* The last element of a non-empty buffer.
Newest(q) == q[Len(q)]

\* The transition is a completed or raising call of method m.
Called(m) == last' = m /\ (m = "step" => nsteps' = nsteps + 1)
                        /\ (m = "reset" => nresets' = nresets + 1)

\* The rolling buffers of a step plot are allocated with one slot per point
\* and every step call so far was made on them.
BuffersInUse ==
    /\ cls \in StepPlotClasses
    /\ ~IsNone(self._no_x_points)
    /\ Len(Val(self._t_data)) = Val(self._no_x_points)
    /\ Len(hist) = nsteps
    /\ nsteps >= 1

\* C1: once the buffers are allocated, after n step calls the slot
\* (i mod N) holds the timestamp (and for RewardPlot the reward) of step i
\* for each of the most recent min(n, N) steps i, no write leaves 0..N-1,
\* and the buffers keep their length N.
C1_RollingBufferHoldsRecent ==
    (BuffersInUse /\ last = "step") =>
        /\ exc # "IndexError"
        /\ Len(Val(self._t_data)) = Val(self._no_x_points)
        /\ \A i \in 1..Len(hist) :
              i > Len(hist) - Val(self._no_x_points) =>
                 /\ Val(self._t_data)[(i % Val(self._no_x_points)) + 1] = hist[i].t
                 /\ cls = "RewardPlot" =>
                       /\ Len(Val(self._reward_data)) = Val(self._no_x_points)
                       /\ Val(self._reward_data)[(i % Val(self._no_x_points)) + 1]
                              = hist[i].smp

\* The callbacks of the dashboard protocol.
Protocol ==
    { "on_step_begin", "on_step_end", "on_reset_begin", "on_reset_end", "initialize",
      "update", "set_env", "set_modules" }

\* Method m of class c resolves to a body that does not open with a call of
\* a super method no base class defines.
Resolves(c, m) ==
    /\ ~IsNone(Lookup(c, m))
    /\ m \in SuperCalls(Val(Lookup(c, m))) => ~IsNone(SuperLookup(Val(Lookup(c, m)), m))

\* C2: a protocol callback called on a concrete plot resolves to a method,
\* does not raise NotImplementedError and does not delegate to a super
\* method that no ancestor defines.
C2_CallbacksHandled ==
    last \in Protocol => exc # "NotImplementedError" /\ Resolves(cls, last)

\* The items of the line_config a plot was constructed with.
OwnLineConfig(kw) == OrEmptyDict(Arg(kw, "line_config", PyNone)).items

\* C3: after any sequence of constructions the class defaults are the four
\* original entries and every plot's _line_cfg is those defaults overridden
\* by its own line_config, so no entry of one plot shows in another.
C3_NoSharedLineConfig ==
    /\ default_line_cfg = _default_line_cfg
    /\ \A i \in 1..Len(plots) :
          plots[i]._line_cfg = Some(DictUpdate(_default_line_cfg, OwnLineConfig(plots[i].kw)))

\* C4: a reset of MeanEpisodeRewardPlot that ends an episode of n >= 1
\* steps appends the sum of that episode's rewards divided by n to the
\* reward series and the episode's episode_count to the x series.
C4_MeanOfEpisodeAppended ==
    [][ (cls = "MeanEpisodeRewardPlot" /\ Called("reset") /\ k >= 1) =>
            /\ ~IsNone(self'._reward_data)
            /\ ~IsNone(self'.x)
            /\ Len(Val(self'._reward_data)) >= 1
            /\ Newest(Val(self'._reward_data)) = FDiv(RewardSum(hist), FromInt(k))
            /\ Newest(Val(self'.x)) = Val(self.episode_count) ]_vars

\* The types the assertions of lines 21 and 159 are meant to let through.
IsNoneOrDict(v) == v.ty \in { "NoneType", "dict" }

\* C5: constructing a StatePlot raises AssertionError exactly when its
\* line_config or limit_line_cfg is neither None nor a dict, falsy values
\* such as [], 0 and "" included.
C5_NonDictConfigRejected ==
    (last = "__init__" /\ cls = "StatePlot") =>
        (exc = "AssertionError" <=> \E a \in DOMAIN args : ~IsNoneOrDict(args[a]))

\* C6: every reset of MeanEpisodeRewardPlot increases episode_count by 1
\* and sets the reward sum to 0, and it appends a data point exactly when a
\* step was made since the previous reset.
C6_ResetEndsEpisode ==
    [][ (cls = "MeanEpisodeRewardPlot" /\ Called("reset")) =>
            /\ exc' # "ZeroDivisionError"
            /\ Val(self'.episode_count) = Val(self.episode_count) + 1
            /\ Val(self'._reward_sum) = 0
            /\ (self'._reward_data # self._reward_data) <=> (k >= 1) ]_vars

ActionDataAfter(s, t, v) ==
    IF IsNone(v) THEN Val(s._action_data)
    ELSE SetItem(Val(s._action_data), SlotIndex(t, Val(s.x_width), Val(s._tau)), Val(v))

\* The value of the plotted action ("action_0") in the action handed to
\* step, None when there is no action.
PlottedAction(action) == IF action.kind = "None" THEN None ELSE Some(action.v[1])

\* C8: a step of an ActionPlot whose buffers are allocated advances t by
\* tau and writes it into the slot; with action None the action data stay
\* as they are, otherwise the plotted action value is written into the same
\* slot and no other.
C8_ActionStepWrites ==
    [][ ( /\ cls = "ActionPlot"
          /\ Called("step")
          /\ ~IsNone(self._tau)
          /\ ~IsNone(self._action_data)
          /\ InRange(Val(self._t_data), SlotIndex(FAdd(Val(self._t), Val(self._tau)),
                                                   Val(self.x_width), Val(self._tau))) ) =>
            /\ Val(self'._t) = FAdd(Val(self._t), Val(self._tau))
            /\ Val(self'._t_data)
                  = SetItem(Val(self._t_data),
                            SlotIndex(Val(self'._t), Val(self.x_width), Val(self._tau)),
                            Val(self'._t))
            /\ Val(self'._action_data)
                  = ActionDataAfter(self, Val(self'._t), PlottedAction(args'.action)) ]_vars

\* A plot fresh from its constructor.
Fresh(c) == New(c, _default_line_cfg, NoAttrs).self

\* initialize(axis) and then set_env(env) on a fresh plot both return.
InitializeThenSetEnv(c, tau) ==
    /\ initialize(c, Fresh(c), << 0, One >>).exc = "ok"
    /\ set_env(c, initialize(c, Fresh(c), << 0, One >>).self, << 0, One >>, tau).exc = "ok"

\* set_env(env) and then initialize(axis) on a fresh plot both return.
SetEnvThenInitialize(c, tau) ==
    /\ set_env(c, Fresh(c), << 0, One >>, tau).exc = "ok"
    /\ initialize(c, set_env(c, Fresh(c), << 0, One >>, tau).self,
                  set_env(c, Fresh(c), << 0, One >>, tau).xlim).exc = "ok"

\* C9: for every step plot class and environment, one of the two orders of
\* initialize and set_env runs through on a fresh plot without a call
\* failing on a field that is still None.
C9_SetupInSomeOrder ==
    cls \in StepPlotClasses =>
        InitializeThenSetEnv(cls, env_tau) \/ SetEnvThenInitialize(cls, env_tau)

\* The data buffers of a step plot: the attributes whose names end in _data.
Buffers(s) == [a \in { b \in DOMAIN s : b \in { "_t_data", "_state_data", "_ref_data",
                                                 "_reward_data", "_action_data" } } |-> s[a]]

\* C10: the time of a step plot changes only in step, which sets it to the
\* float nearest to t + tau, a greater time; on_reset_begin, on_reset_end
\* and update leave the time and the data buffers as they are; the times
\* the steps recorded are pairwise distinct.
C10_TimeChangedOnlyByStep ==
    /\ [][ (cls \in StepPlotClasses) =>
              /\ ~Called("step") => self'._t = self._t
              /\ (Called("step") /\ IsNone(self._tau)) => self'._t = self._t
              /\ (Called("step") /\ ~IsNone(self._tau)) =>
                     /\ Val(self'._t) = FAdd(Val(self._t), Val(self._tau))
                     /\ Val(self'._t) > Val(self._t)
              /\ (Called("on_reset_begin") \/ Called("on_reset_end") \/ Called("update")) =>
                     Buffers(self') = Buffers(self) ]_vars
    /\ [](cls \in StepPlotClasses =>
              \A i, j \in 1..Len(hist) : (i < j /\ hist[j].t > 0) => hist[i].t < hist[j].t)

\* A step advanced the time from an earlier step's time by a float other
\* than tau, and the reset callbacks that followed left it alone.
C10_Witness ==
    /\ cls \in StepPlotClasses
    /\ last = "on_reset_end"
    /\ exc = "ok"
    /\ ~IsNone(self._tau)
    /\ Len(hist) >= 2
    /\ hist[Len(hist)].t = Val(self._t)
    /\ hist[Len(hist) - 1].t > 0
    /\ hist[Len(hist)].t - hist[Len(hist) - 1].t # Val(self._tau)

\* C10 as stated: every step on a plot whose tau is set increases t by
\* exactly tau.
C10_StepAddsExactlyTau ==
    [][ (cls \in StepPlotClasses /\ Called("step") /\ ~IsNone(self._tau)) =>
            Val(self'._t) - Val(self._t) = Val(self._tau) ]_vars

=============================================================================
